---- MODULE Spec2Model ----
(***************************************************************************)
(* AutoSpotting entry point (autospotting.go): process initialization,     *)
(* configuration parsing, mode selection in main and the Lambda Handler.   *)
(***************************************************************************)
EXTENDS Naturals, Sequences, FiniteSets, TLC

VARIABLES
    args,        \* os.Args[1:]: the flag inputs handed to flag.Parse, in order
    env,         \* process environment: AWS_LAMBDA_FUNCTION_NAME set?, AWS_REGION
    pc,          \* position of the process
    conf,        \* the package-level conf (*cfgData); NoConf before init()
    exitCode,    \* NotExited, or the code the process exited with
    stdout,      \* lines printed on standard output by printVersion
    parseCount,  \* number of calls of parseCommandLineFlags
    fetchCount,  \* number of calls of ec2instancesinfo.Data
    registered,  \* TRUE once lambda.Start(Handler) was called
    mainRuns,    \* calls of autospotting.Run made by main's own run()
    inv          \* the running/last Handler invocation; NoInvocation between events

vars == <<args, env, pc, conf, exitCode, stdout, parseCount, fetchCount,
          registered, mainRuns, inv>>

-----------------------------------------------------------------------------
(* Bounds *)

\* longest command line considered
MaxArgs == 2
\* longest record list of an SNS envelope considered
MaxRecords == 2

-----------------------------------------------------------------------------
(* Payloads: JSON texts, described by what encoding/json sees in them *)

InterruptionWarning == "EC2 Spot Instance Interruption Warning"

UsEast1RegionID == "us-east-1"

EventRegions == {"us-east-1", "eu-west-1"}

NoRecords == [tag |-> "absent", items |-> <<>>]

\* a text that is no JSON at all (the empty string included)
InvalidJSON == [kind |-> "invalid", Records |-> NoRecords, dtTag |-> "absent",
                dt |-> "", region |-> "", detail |-> "absent"]

\* the JSON literal null
NullJSON == [kind |-> "null", Records |-> NoRecords, dtTag |-> "absent",
             dt |-> "", region |-> "", detail |-> "absent"]

\* valid JSON that is no object (a number, a string, an array)
ScalarJSON == [kind |-> "scalar", Records |-> NoRecords, dtTag |-> "absent",
               dt |-> "", region |-> "", detail |-> "absent"]

\* a JSON object: its "Records", "detail-type", "region" and "detail" members
Object(recs, dtTag, dt, region, detail) ==
    [kind |-> "object", Records |-> recs, dtTag |-> dtTag, dt |-> dt,
     region |-> region, detail |-> detail]

\* the (detail-type, region, detail) members a notification object may carry:
\* dtTag "number" is a detail-type of the wrong JSON type; detail is
\* "malformed", "no-action" (no instance action in it) or an instance id
NotificationFields ==
    { f \in [dtTag : {"absent", "string", "number"},
             dt : {"", InterruptionWarning, "Scheduled Event"},
             region : EventRegions,
             detail : {"malformed", "no-action", "i-0123"}] :
        /\ (f.dtTag = "string") = (f.dt # "")
        /\ (f.dt # InterruptionWarning) =>
               (f.detail = "no-action" /\ f.region = "eu-west-1") }

Notification(recs, f) == Object(recs, f.dtTag, f.dt, f.region, f.detail)

\* the inner message strings of SNS records
Messages ==
    { InvalidJSON,
      Object(NoRecords, "string", "Scheduled Event", "us-east-1", "no-action"),
      Object(NoRecords, "string", InterruptionWarning, "eu-west-1", "i-0123"),
      \* a message that is itself an SNS envelope around garbage
      Object([tag |-> "list", items |-> <<[tag |-> "record", Message |-> InvalidJSON]>>],
             "string", InterruptionWarning, "us-east-1", "i-0456") }

\* the elements of a "Records" array: a record, or a value of the wrong type
RecordItems ==
    { [tag |-> "record", Message |-> m] : m \in Messages }
        \cup { [tag |-> "mistyped", Message |-> InvalidJSON] }

SeqsUpTo(S, n) == UNION { [1..k -> S] : k \in 0..n }

\* the "Records" member: absent, null, of the wrong type, or an array
DirectRecords ==
    { NoRecords, [tag |-> "null", items |-> <<>>],
      [tag |-> "mistyped", items |-> <<>>], [tag |-> "list", items |-> <<>>] }

EnvelopeRecords ==
    { [tag |-> "list", items |-> s] : s \in SeqsUpTo(RecordItems, MaxRecords) \ {<<>>} }

\* the outer members an envelope with records carries besides "Records"
EnvelopeOuterFields ==
    { f \in NotificationFields :
        f.dtTag = "string" /\ f.region = "eu-west-1" /\ f.detail = "no-action" }

Payloads ==
    {InvalidJSON, NullJSON, ScalarJSON}
        \cup { Notification(r, f) : r \in DirectRecords, f \in NotificationFields }
        \cup { Notification(r, f) : r \in EnvelopeRecords, f \in EnvelopeOuterFields }

-----------------------------------------------------------------------------
(* encoding/json as Handler uses it *)

\* json.Unmarshal(parseEvent, &snsEvent): events.SNSEvent has the one member
\* Records; other members of the object are ignored
UnmarshalSNS(p) ==
    CASE p.kind = "invalid" -> [err |-> TRUE, isNil |-> TRUE, Records |-> <<>>]
      [] p.kind = "scalar" -> [err |-> TRUE, isNil |-> TRUE, Records |-> <<>>]
      [] p.kind = "null" -> [err |-> FALSE, isNil |-> TRUE, Records |-> <<>>]
      [] OTHER ->
           CASE p.Records.tag \in {"absent", "null"} ->
                    [err |-> FALSE, isNil |-> TRUE, Records |-> <<>>]
             [] p.Records.tag = "mistyped" ->
                    [err |-> TRUE, isNil |-> TRUE, Records |-> <<>>]
             [] OTHER ->
                    [err |-> \E i \in DOMAIN p.Records.items :
                                 p.Records.items[i].tag = "mistyped",
                     isNil |-> FALSE,
                     Records |-> p.Records.items]

\* json.Unmarshal(parseEvent, &cloudwatchEvent): events.CloudWatchEvent has
\* detail-type, region and detail (a raw message); "Records" is ignored
UnmarshalCloudWatch(p) ==
    CASE p.kind \in {"invalid", "scalar"} ->
             [err |-> TRUE, DetailType |-> "", Region |-> "", Detail |-> "absent"]
      [] p.kind = "null" ->
             [err |-> FALSE, DetailType |-> "", Region |-> "", Detail |-> "absent"]
      [] OTHER ->
             [err |-> p.dtTag = "number",
              DetailType |-> IF p.dtTag = "string" THEN p.dt ELSE "",
              Region |-> p.region,
              Detail |-> p.detail]

\* autospotting.GetInstanceIDDueForTermination(cloudwatchEvent)
GetInstanceIDDueForTermination(ev) ==
    CASE ev.Detail \in {"malformed", "absent"} -> [err |-> TRUE, isNil |-> TRUE, id |-> ""]
      [] ev.Detail = "no-action" -> [err |-> FALSE, isNil |-> TRUE, id |-> ""]
      [] OTHER -> [err |-> FALSE, isNil |-> FALSE, id |-> ev.Detail]

-----------------------------------------------------------------------------
(* Configuration *)

\* var Version
Version == "number missing"

NoConf == [built |-> FALSE]

NotExited == "running"

\* defaults of the core package's Config
DefaultBiddingPolicy == "normal"
DefaultInstanceTerminationMethod == "terminate"
DefaultTerminationNotificationAction == "auto"
DefaultMinOnDemandValue == 0
DefaultSpotPriceBufferPercentage == "default"
DefaultSpotProductDescription == "Linux/UNIX (Amazon VPC)"

\* the struct literal built by init(), with every flag still at its zero value
InitialConf(e) ==
    [built |-> TRUE,
     LogFile |-> "os.Stdout",
     LogFlag |-> "Ldate|Ltime|Lshortfile",
     MainRegion |-> IF e.AWS_REGION # "" THEN e.AWS_REGION ELSE UsEast1RegionID,
     SleepMultiplier |-> 1,
     InstanceData |-> "nil",
     AllowedInstanceTypes |-> "",
     BiddingPolicy |-> "",
     DisallowedInstanceTypes |-> "",
     InstanceTerminationMethod |-> "",
     TerminationNotificationAction |-> "",
     MinOnDemandNumber |-> 0,
     MinOnDemandPercentage |-> "",
     OnDemandPriceMultiplier |-> "",
     Regions |-> "",
     SpotPriceBufferPercentage |-> "",
     SpotProductDescription |-> "",
     TagFilteringMode |-> "",
     FilterByTags |-> "",
     CronSchedule |-> "",
     CronScheduleState |-> ""]

\* flag.StringVar/Int64Var/Float64Var: registering a flag stores its default
RegisterFlags(c) ==
    [c EXCEPT !.AllowedInstanceTypes = "",
              !.BiddingPolicy = DefaultBiddingPolicy,
              !.DisallowedInstanceTypes = "",
              !.InstanceTerminationMethod = DefaultInstanceTerminationMethod,
              !.TerminationNotificationAction = DefaultTerminationNotificationAction,
              !.MinOnDemandNumber = DefaultMinOnDemandValue,
              !.MinOnDemandPercentage = "0.0",
              !.OnDemandPriceMultiplier = "1.0",
              !.Regions = "",
              !.SpotPriceBufferPercentage = DefaultSpotPriceBufferPercentage,
              !.SpotProductDescription = DefaultSpotProductDescription,
              !.TagFilteringMode = "opt-in",
              !.FilterByTags = "",
              !.CronSchedule = "* *",
              !.CronScheduleState = "on"]

\* the flag inputs considered: -name=value
Flag(name, value) == [flag |-> name, value |-> value]

Tokens ==
    { Flag("version", "true"),
      Flag("min_on_demand_number", "1"),
      Flag("min_on_demand_number", "abc"),
      Flag("bidding_policy", "bogus"),
      Flag("tag_filtering_mode", "bogus"),
      Flag("instance_termination_method", "bogus"),
      Flag("termination_notification_action", "terminate"),
      Flag("termination_notification_action", "bogus"),
      Flag("cron_schedule_state", "bogus") }

\* strconv.ParseInt on the numerals considered
DecimalValue(s) ==
    CASE s = "0" -> [err |-> FALSE, n |-> 0]
      [] s = "1" -> [err |-> FALSE, n |-> 1]
      [] s = "2" -> [err |-> FALSE, n |-> 2]
      [] OTHER -> [err |-> TRUE, n |-> 0]

\* flag.Parse on one flag: the value is stored as given; only a numeral is
\* converted, and a malformed one is the parse error
SetFlag(st, tok) ==
    CASE tok.flag = "version" -> [st EXCEPT !.version = (tok.value = "true")]
      [] tok.flag = "min_on_demand_number" ->
             IF DecimalValue(tok.value).err
             THEN [st EXCEPT !.err = TRUE]
             ELSE [st EXCEPT !.conf.MinOnDemandNumber = DecimalValue(tok.value).n]
      [] tok.flag = "bidding_policy" -> [st EXCEPT !.conf.BiddingPolicy = tok.value]
      [] tok.flag = "tag_filtering_mode" -> [st EXCEPT !.conf.TagFilteringMode = tok.value]
      [] tok.flag = "instance_termination_method" ->
             [st EXCEPT !.conf.InstanceTerminationMethod = tok.value]
      [] tok.flag = "termination_notification_action" ->
             [st EXCEPT !.conf.TerminationNotificationAction = tok.value]
      [] tok.flag = "cron_schedule_state" -> [st EXCEPT !.conf.CronScheduleState = tok.value]
      [] OTHER -> [st EXCEPT !.err = TRUE]

RECURSIVE ParseArgs(_, _)
\* flag.Parse: the flags in order, stopping at the first error
ParseArgs(st, a) ==
    IF a = <<>> \/ st.err THEN st
    ELSE ParseArgs(SetFlag(st, Head(a)), Tail(a))

\* parseCommandLineFlags up to flag.Parse: conf and the version flag v
parseCommandLineFlags(c, a) ==
    ParseArgs([conf |-> RegisterFlags(c), version |-> FALSE, err |-> FALSE], a)

\* what printVersion prints
VersionLine == <<"AutoSpotting build:", Version>>

\* autospotting.Run(conf.Config): the configuration as the engine leaves it
Run(c) == c

-----------------------------------------------------------------------------
(* Handler *)

NoEvent == [err |-> FALSE, DetailType |-> "", Region |-> "", Detail |-> "absent"]

NoInvocation ==
    [outcome |-> "none", rawEvent |-> InvalidJSON, parseEvent |-> InvalidJSON,
     stage1 |-> "skipped", stage2 |-> "skipped", event |-> NoEvent,
     runCalls |-> <<>>, execCalls |-> <<>>]

\* ExtractMessage taking the last record instead of the first
ExtractLastMessage(sns, rawEvent) ==
    IF ~sns.isNil
    THEN IF Len(sns.Records) = 0
         THEN [panic |-> TRUE, parseEvent |-> rawEvent]
         ELSE [panic |-> FALSE, parseEvent |-> sns.Records[Len(sns.Records)].Message]
    ELSE [panic |-> FALSE, parseEvent |-> rawEvent]

\* lines 113-117: the working payload after the SNS step; indexing an empty,
\* non-nil Records slice panics
ExtractMessage(sns, rawEvent) ==
    IF ~sns.isNil
    THEN IF Len(sns.Records) = 0
         THEN [panic |-> TRUE, parseEvent |-> rawEvent]
         ELSE [panic |-> FALSE, parseEvent |-> sns.Records[1].Message]
    ELSE [panic |-> FALSE, parseEvent |-> rawEvent]

\* Dispatch building the termination for conf.MainRegion
DispatchMainRegion(ev, c) ==
    IF ev.DetailType = InterruptionWarning
    THEN LET r == GetInstanceIDDueForTermination(ev)
         IN  IF r.err THEN [runCalls |-> <<>>, execCalls |-> <<>>]
             ELSE IF ~r.isNil
             THEN [runCalls |-> <<>>,
                   execCalls |-> <<[instanceID |-> r.id, region |-> c.MainRegion,
                                    action |-> c.TerminationNotificationAction]>>]
             ELSE [runCalls |-> <<>>, execCalls |-> <<>>]
    ELSE [runCalls |-> <<c>>, execCalls |-> <<>>]

\* Dispatch starting the run only when the schedule state is "on"
DispatchScheduleGated(ev, c) ==
    IF ev.DetailType = InterruptionWarning
    THEN LET r == GetInstanceIDDueForTermination(ev)
         IN  IF r.err THEN [runCalls |-> <<>>, execCalls |-> <<>>]
             ELSE IF ~r.isNil
             THEN [runCalls |-> <<>>,
                   execCalls |-> <<[instanceID |-> r.id, region |-> ev.Region,
                                    action |-> c.TerminationNotificationAction]>>]
             ELSE [runCalls |-> <<>>, execCalls |-> <<>>]
    ELSE IF c.CronScheduleState = "on"
         THEN [runCalls |-> <<c>>, execCalls |-> <<>>]
         ELSE [runCalls |-> <<>>, execCalls |-> <<>>]

\* lines 125-136: the calls made for a decoded notification
Dispatch(ev, c) ==
    IF ev.DetailType = InterruptionWarning
    THEN LET r == GetInstanceIDDueForTermination(ev)
         IN  IF r.err THEN [runCalls |-> <<>>, execCalls |-> <<>>]
             ELSE IF ~r.isNil
             THEN [runCalls |-> <<>>,
                   execCalls |-> <<[instanceID |-> r.id, region |-> ev.Region,
                                    action |-> c.TerminationNotificationAction]>>]
             ELSE [runCalls |-> <<>>, execCalls |-> <<>>]
    ELSE [runCalls |-> <<c>>, execCalls |-> <<>>]

\* Handler falling through to the second decode after a first-stage error
HandlerFallThrough(rawEvent, c) ==
    LET sns == UnmarshalSNS(rawEvent)
        base == [NoInvocation EXCEPT !.rawEvent = rawEvent, !.parseEvent = rawEvent]
        ev == UnmarshalCloudWatch(rawEvent)
    IN  IF ev.err
        THEN [base EXCEPT !.outcome = "returned",
                          !.stage1 = IF sns.err THEN "err" ELSE "ok",
                          !.stage2 = "err"]
        ELSE [base EXCEPT !.outcome = "returned",
                          !.stage1 = IF sns.err THEN "err" ELSE "ok",
                          !.stage2 = "ok", !.event = ev,
                          !.runCalls = Dispatch(ev, c).runCalls,
                          !.execCalls = Dispatch(ev, c).execCalls]

\* Handler(ctx, rawEvent), with conf = c
Handler(rawEvent, c) ==
    LET sns == UnmarshalSNS(rawEvent)
        base == [NoInvocation EXCEPT !.rawEvent = rawEvent, !.parseEvent = rawEvent]
    IN  IF sns.err
        THEN [base EXCEPT !.outcome = "returned", !.stage1 = "err"]
        ELSE LET x == ExtractMessage(sns, rawEvent)
             IN  IF x.panic
                 THEN [base EXCEPT !.outcome = "panic", !.stage1 = "ok"]
                 ELSE LET ev == UnmarshalCloudWatch(x.parseEvent)
                      IN  IF ev.err
                          THEN [base EXCEPT !.outcome = "returned", !.stage1 = "ok",
                                            !.parseEvent = x.parseEvent,
                                            !.stage2 = "err"]
                          ELSE [base EXCEPT !.outcome = "returned", !.stage1 = "ok",
                                            !.parseEvent = x.parseEvent,
                                            !.stage2 = "ok", !.event = ev,
                                            !.runCalls = Dispatch(ev, c).runCalls,
                                            !.execCalls = Dispatch(ev, c).execCalls]

-----------------------------------------------------------------------------
(* The process *)

Environments == [AWS_LAMBDA_FUNCTION_NAME : {"", "autospotting"},
                 AWS_REGION : {"", "eu-west-1"}]

Init ==
    /\ args \in SeqsUpTo(Tokens, MaxArgs)
    /\ env \in Environments
    /\ pc = "start"
    /\ conf = NoConf
    /\ exitCode = NotExited
    /\ stdout = <<>>
    /\ parseCount = 0
    /\ fetchCount = 0
    /\ registered = FALSE
    /\ mainRuns = 0
    /\ inv = NoInvocation

\* initialize fetching the instance data before the flags are looked at
initializeFetchFirst(c, a, dataOk) ==
    LET st == parseCommandLineFlags(c, a)
    IN  IF ~dataOk
        THEN [conf |-> st.conf, exit |-> "1", out |-> <<>>, fetched |-> 1]
        ELSE IF st.err
        THEN [conf |-> [st.conf EXCEPT !.InstanceData = "loaded"],
              exit |-> "2", out |-> <<>>, fetched |-> 1]
        ELSE IF st.version
        THEN [conf |-> [st.conf EXCEPT !.InstanceData = "loaded"],
              exit |-> "0", out |-> <<VersionLine>>, fetched |-> 1]
        ELSE [conf |-> [st.conf EXCEPT !.InstanceData = "loaded"],
              exit |-> NotExited, out |-> <<>>, fetched |-> 1]

\* conf.initialize(), with printVersion: parse the flags; a flag error exits
\* with 2; the version flag prints and exits with 0; else the instance data
\* is fetched (dataOk: whether the fetch works) and a failure is fatal
initialize(c, a, dataOk) ==
    LET st == parseCommandLineFlags(c, a)
    IN  IF st.err
        THEN [conf |-> st.conf, exit |-> "2", out |-> <<>>, fetched |-> 0]
        ELSE IF st.version
        THEN [conf |-> st.conf, exit |-> "0", out |-> <<VersionLine>>, fetched |-> 0]
        ELSE IF dataOk
        THEN [conf |-> [st.conf EXCEPT !.InstanceData = "loaded"],
              exit |-> NotExited, out |-> <<>>, fetched |-> 1]
        ELSE [conf |-> st.conf, exit |-> "1", out |-> <<>>, fetched |-> 1]

\* init(): build conf from the environment and initialize it
ProcessInit ==
    /\ pc = "start"
    /\ \E dataOk \in BOOLEAN :
         LET r == initialize(InitialConf(env), args, dataOk)
         IN  /\ conf' = r.conf
             /\ parseCount' = parseCount + 1
             /\ fetchCount' = fetchCount + r.fetched
             /\ stdout' = stdout \o r.out
             /\ exitCode' = r.exit
             /\ pc' = IF r.exit = NotExited THEN "main" ELSE "exited"
    /\ UNCHANGED <<args, env, registered, mainRuns, inv>>

\* main making its run() before it looks at the environment
MainRunsFirst ==
    /\ pc = "main"
    /\ mainRuns' = mainRuns + 1
    /\ conf' = Run(conf)
    /\ IF env.AWS_LAMBDA_FUNCTION_NAME # ""
       THEN /\ registered' = TRUE
            /\ pc' = "serving"
            /\ UNCHANGED exitCode
       ELSE /\ pc' = "exited"
            /\ exitCode' = "0"
            /\ UNCHANGED registered
    /\ UNCHANGED <<args, env, stdout, parseCount, fetchCount, inv>>

\* main(): lambda.Start(Handler) under Lambda, else one run() and exit
Main ==
    /\ pc = "main"
    /\ IF env.AWS_LAMBDA_FUNCTION_NAME # ""
       THEN /\ registered' = TRUE
            /\ pc' = "serving"
            /\ UNCHANGED <<conf, mainRuns, exitCode>>
       ELSE /\ mainRuns' = mainRuns + 1
            /\ conf' = Run(conf)
            /\ pc' = "exited"
            /\ exitCode' = "0"
            /\ UNCHANGED registered
    /\ UNCHANGED <<args, env, stdout, parseCount, fetchCount, inv>>

\* Handler initializing conf again on every event
HandlerInvokeReinit ==
    /\ pc = "serving"
    /\ \E rawEvent \in Payloads :
         LET r == initialize(InitialConf(env), <<>>, TRUE)
         IN  /\ inv' = Handler(rawEvent, r.conf)
             /\ conf' = r.conf
             /\ parseCount' = parseCount + 1
             /\ fetchCount' = fetchCount + r.fetched
             /\ pc' = IF inv'.outcome = "panic" THEN "panicked" ELSE "returned"
    /\ UNCHANGED <<args, env, exitCode, stdout, registered, mainRuns>>

\* the Lambda runtime delivers an event: one whole call of Handler
HandlerInvoke ==
    /\ pc = "serving"
    /\ \E rawEvent \in Payloads :
         /\ inv' = Handler(rawEvent, conf)
         /\ conf' = IF inv'.runCalls # <<>> THEN Run(conf) ELSE conf
         /\ pc' = IF inv'.outcome = "panic" THEN "panicked" ELSE "returned"
    /\ UNCHANGED <<args, env, exitCode, stdout, parseCount, fetchCount,
                   registered, mainRuns>>

\* Handler returned; the runtime waits for the next event
HandlerReturn ==
    /\ pc = "returned"
    /\ pc' = "serving"
    /\ inv' = NoInvocation
    /\ UNCHANGED <<args, env, conf, exitCode, stdout, parseCount, fetchCount,
                   registered, mainRuns>>

\* Handler panicked and the runtime reports the error and keeps serving
PanicRecovered ==
    /\ pc = "panicked"
    /\ pc' = "serving"
    /\ inv' = NoInvocation
    /\ UNCHANGED <<args, env, conf, exitCode, stdout, parseCount, fetchCount,
                   registered, mainRuns>>

\* Handler panicked and the runtime lets the process die
PanicCrash ==
    /\ pc = "panicked"
    /\ pc' = "exited"
    /\ exitCode' = "2"
    /\ UNCHANGED <<args, env, conf, stdout, parseCount, fetchCount,
                   registered, mainRuns, inv>>

Next ==
    \/ ProcessInit
    \/ Main
    \/ HandlerInvoke
    \/ HandlerReturn
    \/ PanicRecovered
    \/ PanicCrash

Spec == Init /\ [][Next]_vars

-----------------------------------------------------------------------------
(* Properties *)

Invoked == inv.outcome # "none"

NoCalls == inv.runCalls = <<>> /\ inv.execCalls = <<>>

InitDone == pc \in {"main", "serving", "returned", "panicked"}

\* C1: for a payload decoded to a notification whose detail-type is the
\* interruption warning, ExecuteAction is called exactly once iff the lookup
\* gives no error and a non-nil id, with that id, the region of the event
\* and conf.TerminationNotificationAction; otherwise nothing is called; the
\* scheduled run is not started in either case.
C1_InterruptionDispatch ==
    (inv.stage2 = "ok" /\ inv.parseEvent.dtTag = "string"
        /\ inv.parseEvent.dt = InterruptionWarning) =>
      LET r == GetInstanceIDDueForTermination(inv.event)
      IN  /\ inv.outcome = "returned"
          /\ inv.runCalls = <<>>
          /\ Len(inv.execCalls) <= 1
          /\ (Len(inv.execCalls) = 1) <=> (~r.err /\ ~r.isNil)
          /\ (inv.execCalls # <<>>) =>
                inv.execCalls[1] =
                    [instanceID |-> inv.parseEvent.detail,
                     region |-> inv.parseEvent.region,
                     action |-> conf.TerminationNotificationAction]

\* an interruption handled for a region other than MainRegion
C1_Witness ==
    /\ inv.execCalls # <<>>
    /\ inv.execCalls[1].region # conf.MainRegion
    /\ inv.execCalls[1].action = "terminate"

\* C2: a payload that passes both decodes with any other detail-type (absent
\* and empty included) starts the scheduled run exactly once with conf,
\* whatever the schedule fields say, and never calls ExecuteAction.
C2_ScheduledDispatch ==
    (inv.stage2 = "ok" /\ ~(inv.parseEvent.dtTag = "string"
                              /\ inv.parseEvent.dt = InterruptionWarning)) =>
      /\ inv.outcome = "returned"
      /\ inv.runCalls = <<conf>>
      /\ inv.execCalls = <<>>

\* a run started for a payload without detail-type, outside any schedule
C2_Witness ==
    /\ inv.runCalls # <<>>
    /\ inv.parseEvent.dtTag = "absent"
    /\ conf.CronScheduleState # "on"

\* C3: a decode failure at either stage ends the invocation with no call of
\* ExecuteAction or of the run and a normal return; after a failure of the
\* first stage the second decode is not attempted.
C3_DecodeFailureDrops ==
    /\ (Invoked /\ UnmarshalSNS(inv.rawEvent).err) =>
          /\ inv.outcome = "returned"
          /\ inv.stage2 = "skipped"
          /\ NoCalls
          /\ pc # "panicked"
    /\ (Invoked /\ inv.stage1 = "ok" /\ inv.outcome # "panic"
          /\ UnmarshalCloudWatch(inv.parseEvent).err) =>
          /\ inv.outcome = "returned"
          /\ NoCalls
          /\ pc # "panicked"

\* a first-stage failure on a payload the second decode would have accepted
C3_Witness ==
    /\ inv.stage1 = "err"
    /\ ~UnmarshalCloudWatch(inv.rawEvent).err
    /\ inv.rawEvent.dt = "Scheduled Event"

\* the calls Handler would make with the unwrapping step left out
DirectCalls(p, c) ==
    IF UnmarshalCloudWatch(p).err
    THEN [runCalls |-> <<>>, execCalls |-> <<>>]
    ELSE Dispatch(UnmarshalCloudWatch(p), c)

ZeroRecords(p) ==
    /\ p.kind = "object"
    /\ \/ p.Records.tag = "absent"
       \/ p.Records.tag = "list" /\ p.Records.items = <<>>

\* C4: an envelope with zero records (list absent, or present and empty) is
\* handled exactly as the outer payload decoded directly as a notification.
C4_ZeroRecordsAsDirect ==
    (Invoked /\ ZeroRecords(inv.rawEvent)) =>
      /\ inv.outcome = "returned"
      /\ inv.runCalls = DirectCalls(inv.rawEvent, conf).runCalls
      /\ inv.execCalls = DirectCalls(inv.rawEvent, conf).execCalls

\* C5: every invocation of Handler returns normally: none panics or hands
\* an error to the platform.
C5_HandlerAlwaysReturns ==
    /\ inv.outcome # "panic"
    /\ pc # "panicked"

VersionRequested == \E i \in DOMAIN args : args[i].flag = "version"

WellFormedArgs ==
    \A i \in DOMAIN args :
        args[i].flag = "min_on_demand_number" => args[i].value \in {"0", "1", "2"}

NothingStarted ==
    /\ ~registered
    /\ mainRuns = 0
    /\ inv = NoInvocation

\* C6 as stated: with the version flag set, initialization prints the version
\* and exits with 0 without fetching the instance data and without parsing
\* the other fields; nothing is registered or run.
C6_VersionShortCircuit ==
    (VersionRequested /\ pc # "start") =>
      /\ pc = "exited"
      /\ exitCode = "0"
      /\ stdout = <<VersionLine>>
      /\ fetchCount = 0
      /\ conf \in {InitialConf(env), RegisterFlags(InitialConf(env))}
      /\ NothingStarted

\* C6 amended: with the version flag set, initialization first parses every
\* flag (other fields are stored, unvalidated); if all values are well formed
\* it then prints the version and exits with 0, else it exits with 2 and
\* prints nothing; the instance data is never fetched and nothing is
\* registered or run.
C6_VersionAfterParse ==
    (VersionRequested /\ pc # "start") =>
      /\ pc = "exited"
      /\ parseCount = 1
      /\ fetchCount = 0
      /\ conf.InstanceData = "nil"
      /\ NothingStarted
      /\ IF WellFormedArgs
         THEN /\ exitCode = "0"
              /\ stdout = <<VersionLine>>
              /\ \A i \in DOMAIN args :
                    args[i].flag = "bidding_policy" =>
                        conf.BiddingPolicy = args[i].value
         ELSE /\ exitCode = "2"
              /\ stdout = <<>>

\* the version printed after another field was parsed into conf
C6_Witness ==
    /\ VersionRequested
    /\ exitCode = "0"
    /\ stdout = <<VersionLine>>
    /\ conf.BiddingPolicy = "bogus"

DirectMode == env.AWS_LAMBDA_FUNCTION_NAME = ""

\* C7: the mode follows AWS_LAMBDA_FUNCTION_NAME and the modes exclude each
\* other: a direct process makes exactly one scheduled run and never
\* registers or calls Handler, so never ExecuteAction; a triggered process
\* runs only from inside a Handler invocation.
C7_ModesExclusive ==
    /\ DirectMode =>
          /\ ~registered
          /\ inv = NoInvocation
          /\ pc \notin {"serving", "returned", "panicked"}
          /\ mainRuns <= 1
          /\ (pc = "exited" /\ conf.InstanceData = "loaded") => mainRuns = 1
    /\ ~DirectMode =>
          /\ mainRuns = 0
          /\ (pc \in {"serving", "returned", "panicked"}) => registered
          /\ (inv.runCalls # <<>>) => pc \in {"returned", "exited"}
    /\ (pc \in {"start", "main"}) => ~registered /\ mainRuns = 0

\* a direct process that finished its one run
C7_Witness ==
    /\ DirectMode
    /\ pc = "exited"
    /\ mainRuns = 1
    /\ exitCode = "0"

BiddingPolicies == {"normal", "aggressive"}
TagFilteringModes == {"opt-in", "opt-out"}
InstanceTerminationMethods == {"terminate", "detach"}
TerminationNotificationActions == {"terminate", "detach", "auto"}
CronScheduleStates == {"on", "off"}

EnumFieldsValid(c) ==
    /\ c.BiddingPolicy \in BiddingPolicies
    /\ c.TagFilteringMode \in TagFilteringModes
    /\ c.InstanceTerminationMethod \in InstanceTerminationMethods
    /\ c.TerminationNotificationAction \in TerminationNotificationActions
    /\ c.CronScheduleState \in CronScheduleStates

\* C9: building the configuration fails when an enum field is given a value
\* outside its set; no such value is in the conf that Handler or the run use.
C9_EnumValidated ==
    (InitDone \/ mainRuns > 0 \/ Invoked) => EnumFieldsValid(conf)

EnvelopeWithRecords(p) ==
    /\ p.kind = "object"
    /\ p.Records.tag = "list"
    /\ p.Records.items # <<>>
    /\ \A i \in DOMAIN p.Records.items : p.Records.items[i].tag = "record"

\* C10: for an envelope with at least one record the outcome is the one of
\* the first record's message decoded directly as a notification (and not
\* unwrapped again); later records and the outer members have no influence.
C10_FirstRecordDecides ==
    (Invoked /\ EnvelopeWithRecords(inv.rawEvent)) =>
      LET m == inv.rawEvent.Records.items[1].Message
      IN  /\ inv.outcome = "returned"
          /\ inv.parseEvent = m
          /\ inv.stage2 = IF UnmarshalCloudWatch(m).err THEN "err" ELSE "ok"
          /\ inv.runCalls = DirectCalls(m, conf).runCalls
          /\ inv.execCalls = DirectCalls(m, conf).execCalls

\* two different records under an outer scheduled notification: the first,
\* itself an envelope, is acted on as an interruption
C10_Witness ==
    /\ EnvelopeWithRecords(inv.rawEvent)
    /\ Len(inv.rawEvent.Records.items) >= 2
    /\ inv.rawEvent.Records.items[1].Message # inv.rawEvent.Records.items[2].Message
    /\ inv.rawEvent.dt = "Scheduled Event"
    /\ inv.rawEvent.Records.items[1].Message.Records.tag = "list"
    /\ inv.execCalls # <<>>

====
